---------------------------- MODULE Spec2Model ----------------------------
(***************************************************************************)
(* Model of the face-recognition application: the upload and start         *)
(* handlers of app.py, the Celery task process_photo_task and              *)
(* face_processor.process_single_photo run by concurrent workers, over the *)
(* four tables of models.py.                                               *)
(*                                                                         *)
(* Numbers: an encoding is a point on a line and face_distance is the      *)
(* absolute difference, in tenths (One = 1.0).  A worker's SQLAlchemy      *)
(* session is its `worker` record: what it loaded, what it changed and     *)
(* what it added stay there until a commit writes them to the tables.      *)
(* A step of a worker is one exchange with the database together with the  *)
(* computation that follows it up to the next exchange.  The name given   *)
(* to a new person is AutoName: the number in it is not modelled.          *)
(***************************************************************************)
EXTENDS Integers, Sequences, FiniteSets, TLC

(* ------------------------------ bounds -------------------------------- *)
MaxPhotos == 2
MaxTasks == 3
MaxDistance == 12

Workers == {"w1", "w2"}

(* ------------------------- program constants -------------------------- *)
(* One is 1.0 in tenths.  FACE_RECOGNITION_TOLERANCE is the configured     *)
(* value the loop reads, here 0.6: the value of the variable tolerance,    *)
(* except in SpecTolerance, which runs the loop for every value.           *)
One == 10
FACE_RECOGNITION_TOLERANCE == 6
BatchLimit == 100
MAX_UPLOAD_SIZE == 500

(* The images a client may upload: the face encodings the detector finds   *)
(* in each, in detection order.  BadFile is a file whose storage raises,   *)
(* EmptyName a file without a name.                                        *)
Images == { <<>>, <<0, 8>> }
BadFile == <<-1>>
EmptyName == <<-2>>
Files == Images \cup {BadFile, EmptyName}

(* The encodings of the faces and persons the loop over the faces is run   *)
(* on in SpecFaces: 0 and 6 are at the tolerance, 0 and 8 beyond it, 4 is  *)
(* as far from 0 as from 8.                                                *)
Encodings == {0, 4, 6, 8}

MaxFaces == CHOOSE n \in { Len(im) : im \in Images } : \A im \in Images : Len(im) <= n

PersonIds == 1..(MaxTasks * MaxFaces)

None == "none"
AutoName == "auto"
ErrDownload == "Failed to download image from S3"
ErrLibrary == "library error"

VARIABLES
    tolerance,      \* Config.FACE_RECOGNITION_TOLERANCE, in tenths
    authenticated,  \* session['authenticated'] of the client
    photos,         \* table photos, in insertion order; a photo's id is its index
    queue,          \* table processing_queue; an entry's id is its index
    persons,        \* table persons, in insertion order
    face_matches,   \* table face_matches, in insertion order
    tasks,          \* the broker's queue of process_photo_task messages
    sent,           \* messages handed to the broker so far
    worker,         \* each worker's position and session
    returned        \* what the task that ended last returned

vars == <<tolerance, authenticated, photos, queue, persons, face_matches, tasks, sent, worker, returned>>

(* ------------------------------ helpers ------------------------------- *)
Range(s) == { s[i] : i \in DOMAIN s }

RECURSIVE SelectIdx(_, _, _)
\* the indices i >= from of s with Test-free status filter, ascending
SelectIdx(s, st, from) ==
    IF from > Len(s) THEN <<>>
    ELSE IF s[from].status = st
         THEN <<from>> \o SelectIdx(s, st, from + 1)
         ELSE SelectIdx(s, st, from + 1)

Take(s, n) == IF Len(s) <= n THEN s ELSE SubSeq(s, 1, n)

Abs(x) == IF x < 0 THEN -x ELSE x

(* face_recognition.face_distance for one pair *)
Distance(a, b) == Abs(a - b)

(* face_recognition.face_distance(known_encodings, face_encoding) *)
face_distance(known, enc) == [k \in DOMAIN known |-> Distance(known[k].face_encoding, enc)]

(* face_recognition.compare_faces(known_encodings, face_encoding, tolerance) *)
compare_faces(known, enc) ==
    [k \in DOMAIN known |-> Distance(known[k].face_encoding, enc) <= tolerance]

(* np.argmin: the first index holding the least value *)
argmin(d) == CHOOSE k \in DOMAIN d :
                 /\ \A j \in DOMAIN d : d[k] <= d[j]
                 /\ \A j \in DOMAIN d : j < k => d[j] > d[k]

(* BestMatch as it would be if only the persons loaded from the table      *)
(* were candidates.                                                        *)
BestMatch_LoadedOnly(known, enc) ==
    LET loaded == SelectSeq(known, LAMBDA e : ~e.new)
    IN IF Len(loaded) > 0
       THEN LET matches == compare_faces(loaded, enc)
                face_distances == face_distance(loaded, enc)
            IN IF TRUE \in Range(matches)
               THEN LET best_match_index == argmin(face_distances)
                    IN IF matches[best_match_index] THEN best_match_index ELSE 0
               ELSE 0
       ELSE 0

(* The index in the known lists the face is assigned to, 0 when a new      *)
(* person is to be registered.                                             *)
BestMatch(known, enc) ==
    IF Len(known) > 0
    THEN LET matches == compare_faces(known, enc)
             face_distances == face_distance(known, enc)
         IN IF TRUE \in Range(matches)
            THEN LET best_match_index == argmin(face_distances)
                 IN IF matches[best_match_index] THEN best_match_index ELSE 0
            ELSE 0
    ELSE 0

(* confidence of a matched face *)
Confidence(d) == One - d

(* ------------------------------ state --------------------------------- *)
NoResult == [outcome |-> "none", faces_found |-> 0, error |-> None]

IdleWorker ==
    [pc |-> "idle", photo_id |-> 0, queue_item |-> 0, loaded_status |-> None,
     known |-> <<>>, added |-> <<>>]

Init ==
    /\ tolerance = FACE_RECOGNITION_TOLERANCE
    /\ authenticated = FALSE
    /\ photos = <<>>
    /\ queue = <<>>
    /\ persons = <<>>
    /\ face_matches = <<>>
    /\ tasks = <<>>
    /\ sent = 0
    /\ worker = [w \in Workers |-> IdleWorker]
    /\ returned = NoResult

(* POST /api/auth with the right passphrase *)
authenticate ==
    /\ ~authenticated
    /\ authenticated' = TRUE
    /\ UNCHANGED <<tolerance, photos, queue, persons, face_matches, tasks, sent, worker, returned>>

(* ------------------------------ app.py -------------------------------- *)
(* The files of one upload request that end as a Photo row: a file with    *)
(* an empty name is skipped, a file whose storage raises is reported in    *)
(* errors.                                                                 *)
StoredFiles(files) == SelectSeq(files, LAMBDA f : f \in Images)

NewPhoto(f) == [faces |-> f, processed |-> FALSE, face_count |-> 0]

NewQueueItem(photo_id) == [photo_id |-> photo_id, status |-> "pending", error_message |-> None]

(* POST /api/upload *)
upload_photos(files) ==
    /\ authenticated
    /\ Len(files) <= MAX_UPLOAD_SIZE
    /\ LET stored == StoredFiles(files)
       IN /\ Len(photos) + Len(stored) <= MaxPhotos
          /\ photos' = photos \o [k \in 1..Len(stored) |-> NewPhoto(stored[k])]
          /\ queue' = queue \o [k \in 1..Len(stored) |-> NewQueueItem(Len(photos) + k)]
    /\ UNCHANGED <<tolerance, authenticated, persons, face_matches, tasks, sent, worker, returned>>

(* PendingQueue as it would be if it stopped at the first entry that is    *)
(* not pending.                                                            *)
RECURSIVE HeadPending(_, _)
HeadPending(s, from) ==
    IF from > Len(s) \/ s[from].status # "pending" THEN <<>>
    ELSE <<from>> \o HeadPending(s, from + 1)

PendingQueue_Blocked ==
    { IF Len(HeadPending(queue, 1)) <= 100 THEN HeadPending(queue, 1)
      ELSE SubSeq(HeadPending(queue, 1), 1, 100) }

(* The sequences without repetition of n elements of the set S. *)
Arrangements(S, n) ==
    { s \in [1..n -> S] : \A j, k \in 1..n : j # k => s[j] # s[k] }

(* ProcessingQueue.query.filter_by(status='pending').limit(100).all():     *)
(* the query states no order, so the database may return the pending rows  *)
(* in any order and, when there are more than the limit, any of them.      *)
PendingQueue ==
    LET pending == Range(SelectIdx(queue, "pending", 1))
    IN Arrangements(pending, IF Cardinality(pending) <= BatchLimit
                             THEN Cardinality(pending) ELSE BatchLimit)

(* POST /api/process/start *)
start_processing ==
    /\ authenticated
    /\ \E pending_queue \in PendingQueue :
          /\ sent + Len(pending_queue) <= MaxTasks
          /\ tasks' = tasks \o [k \in 1..Len(pending_queue) |-> queue[pending_queue[k]].photo_id]
          /\ sent' = sent + Len(pending_queue)
    /\ UNCHANGED <<tolerance, authenticated, photos, queue, persons, face_matches, worker, returned>>


(* -------------------------- face_processor.py ------------------------- *)
(* The worker's session.  known: the Person objects behind the lists       *)
(* known_encodings / known_person_ids, in list order: the rows of          *)
(* Person.query.all() as loaded, then the persons added for this photo     *)
(* (new); dirty marks a loaded person whose photo_count was changed.       *)
(* added: the FaceMatch objects added for this photo.                      *)
Loaded(p) ==
    [id |-> p.id, name |-> p.name, face_encoding |-> p.face_encoding,
     photo_count |-> p.photo_count, new |-> FALSE, dirty |-> FALSE]

Row(k) ==
    [id |-> k.id, name |-> k.name, face_encoding |-> k.face_encoding,
     photo_count |-> k.photo_count]

Ids(s) == { s[j].id : j \in DOMAIN s }

(* uuid4 values in use: a fresh one differs from all of them.  The code    *)
(* compares identifiers for equality only, so which fresh value is drawn   *)
(* changes nothing it does: FreshId is the least free one.                 *)
UsedIds == Ids(persons) \cup UNION { Ids(worker[w].known) : w \in Workers }

FreshId(known) ==
    LET free == PersonIds \ (UsedIds \cup Ids(known))
    IN CHOOSE x \in free : \A y \in free : x <= y

FaceMatchRow(photo_id, person_id, confidence, enc) ==
    [photo_id |-> photo_id, person_id |-> person_id, confidence |-> confidence,
     face_encoding |-> enc]

(* HandleFace as it would be with a new person's photo_count left at the   *)
(* column's default.                                                       *)
HandleFace_DefaultCount(sess, photo_id, enc) ==
    LET known == sess.known
        best == BestMatch(known, enc)
    IN IF best # 0
       THEN [known |-> [known EXCEPT ![best].photo_count = @ + 1,
                                     ![best].dirty = ~known[best].new],
             added |-> Append(sess.added,
                          FaceMatchRow(photo_id, known[best].id,
                                       Confidence(face_distance(known, enc)[best]), enc))]
       ELSE LET person_id == FreshId(known)
            IN [known |-> Append(known,
                             [id |-> person_id, name |-> AutoName, face_encoding |-> enc,
                              photo_count |-> 0, new |-> TRUE, dirty |-> FALSE]),
                added |-> Append(sess.added, FaceMatchRow(photo_id, person_id, One, enc))]

(* One pass of the loop over the faces: the session after the face enc of  *)
(* photo photo_id was handled in session sess.                             *)
HandleFace(sess, photo_id, enc) ==
    LET known == sess.known
        best == BestMatch(known, enc)
    IN IF best # 0
       THEN [known |-> [known EXCEPT ![best].photo_count = @ + 1,
                                     ![best].dirty = ~known[best].new],
             added |-> Append(sess.added,
                          FaceMatchRow(photo_id, known[best].id,
                                       Confidence(face_distance(known, enc)[best]), enc))]
       ELSE LET person_id == FreshId(known)
            IN [known |-> Append(known,
                             [id |-> person_id, name |-> AutoName, face_encoding |-> enc,
                              photo_count |-> 1, new |-> TRUE, dirty |-> FALSE]),
                added |-> Append(sess.added, FaceMatchRow(photo_id, person_id, One, enc))]

(* The session after the first n faces of the photo were handled. *)
RECURSIVE FacesHandled(_, _, _, _)
FacesHandled(sess, photo_id, faces, n) ==
    IF n = 0 THEN sess
    ELSE HandleFace(FacesHandled(sess, photo_id, faces, n - 1), photo_id, faces[n])

(* What db.session.commit() makes of the persons table: the UPDATE of      *)
(* photo_count for each changed person (the value the session holds),      *)
(* then the INSERT of each new person.                                     *)
CommitPersons(known) ==
    [j \in DOMAIN persons |->
        IF \E k \in DOMAIN known : known[k].id = persons[j].id /\ known[k].dirty
        THEN [persons[j] EXCEPT !.photo_count =
                 known[CHOOSE k \in DOMAIN known : known[k].id = persons[j].id].photo_count]
        ELSE persons[j]]
    \o [k \in 1..Len(SelectSeq(known, LAMBDA e : e.new)) |->
            Row(SelectSeq(known, LAMBDA e : e.new)[k])]

CommitFaceMatches(added) == face_matches \o added

Finished(w) == [worker EXCEPT ![w] = IdleWorker]

Success(n) == [outcome |-> "success", faces_found |-> n, error |-> None]
Failure(msg) == [outcome |-> "failure", faces_found |-> 0, error |-> msg]
Raised == [outcome |-> "exception", faces_found |-> 0, error |-> None]

(* process_photo_task is delivered to a free worker;                       *)
(* ProcessingQueue.query.filter_by(photo_id=photo_id).first(): a row of    *)
(* that photo (the query states no order).                                 *)
QueueItemFound(w) ==
    /\ worker[w].pc = "idle"
    /\ tasks # <<>>
    /\ \E q \in DOMAIN queue :
          /\ queue[q].photo_id = Head(tasks)
          /\ worker' = [worker EXCEPT ![w] =
                [IdleWorker EXCEPT !.pc = "lease", !.photo_id = Head(tasks),
                                   !.queue_item = q, !.loaded_status = queue[q].status]]
    /\ tasks' = Tail(tasks)
    /\ UNCHANGED <<tolerance, authenticated, photos, queue, persons, face_matches, sent, returned>>

(* queue_item.status = 'processing'; db.session.commit().  The session    *)
(* writes the column only when the value differs from the one it loaded.   *)
MarkProcessing(w) ==
    /\ worker[w].pc = "lease"
    /\ queue' = IF worker[w].loaded_status # "processing"
                THEN [queue EXCEPT ![worker[w].queue_item].status = "processing"]
                ELSE queue
    /\ worker' = [worker EXCEPT ![w].pc = "detect", ![w].loaded_status = None]
    /\ UNCHANGED <<tolerance, authenticated, photos, persons, face_matches, tasks, sent, returned>>

(* MarkFailed as it would be if the except branch rolled the session back  *)
(* before it marks the entry.                                              *)
MarkFailed_RolledBack(w, msg) ==
    /\ queue' = [queue EXCEPT ![worker[w].queue_item].status = "failed",
                              ![worker[w].queue_item].error_message = msg]
    /\ worker' = [worker EXCEPT ![w] = [pc |-> "idle", photo_id |-> 0, queue_item |-> 0,
                                        loaded_status |-> None, known |-> <<>>, added |-> <<>>]]
    /\ returned' = [outcome |-> "failure", faces_found |-> 0, error |-> msg]
    /\ UNCHANGED <<tolerance, authenticated, photos, persons, face_matches, tasks, sent>>

(* The except branch: the entry is marked failed and the session is        *)
(* committed, with whatever it holds.                                      *)
MarkFailed(w, msg) ==
    /\ queue' = [queue EXCEPT ![worker[w].queue_item].status = "failed",
                              ![worker[w].queue_item].error_message = msg]
    /\ persons' = CommitPersons(worker[w].known)
    /\ face_matches' = CommitFaceMatches(worker[w].added)
    /\ worker' = Finished(w)
    /\ returned' = Failure(msg)
    /\ UNCHANGED <<tolerance, authenticated, photos, tasks, sent>>

(* The download fails or the detector raises; of the messages str(e) the  *)
(* model keeps two: that of the download and one for every other raise.    *)
DetectFails(w) ==
    /\ worker[w].pc = "detect"
    /\ MarkFailed(w, ErrDownload)

(* NoFaces as it would be with the entry left as it is. *)
NoFaces_EntryLeft(w) ==
    /\ worker[w].pc = "detect"
    /\ Len(photos[worker[w].photo_id].faces) = 0
    /\ photos' = [photos EXCEPT ![worker[w].photo_id].processed = TRUE,
                                ![worker[w].photo_id].face_count = 0]
    /\ worker' = [worker EXCEPT ![w] = [pc |-> "idle", photo_id |-> 0, queue_item |-> 0,
                                        loaded_status |-> None, known |-> <<>>, added |-> <<>>]]
    /\ returned' = [outcome |-> "success", faces_found |-> 0, error |-> None]
    /\ UNCHANGED <<tolerance, authenticated, queue, persons, face_matches, tasks, sent>>

(* No face was detected. *)
NoFaces(w) ==
    /\ worker[w].pc = "detect"
    /\ Len(photos[worker[w].photo_id].faces) = 0
    /\ photos' = [photos EXCEPT ![worker[w].photo_id].processed = TRUE,
                                ![worker[w].photo_id].face_count = 0]
    /\ queue' = [queue EXCEPT ![worker[w].queue_item].status = "completed"]
    /\ worker' = Finished(w)
    /\ returned' = Success(0)
    /\ UNCHANGED <<tolerance, authenticated, persons, face_matches, tasks, sent>>

(* all_persons = Person.query.all(), as the session starts the loop: the  *)
(* rows in table order.  The query states no order; SpecFaces runs the     *)
(* loop on tables listed in every order.                                   *)
Snapshot == [known |-> [j \in DOMAIN persons |-> Loaded(persons[j])], added |-> <<>>]

(* Faces were found, the persons are loaded and the loop handles every     *)
(* face.                                                                   *)
MatchFaces(w) ==
    /\ worker[w].pc = "detect"
    /\ LET faces == photos[worker[w].photo_id].faces
           sess == FacesHandled(Snapshot, worker[w].photo_id, faces, Len(faces))
       IN /\ Len(faces) > 0
          /\ worker' = [worker EXCEPT ![w].pc = "commit", ![w].known = sess.known,
                                      ![w].added = sess.added]
    /\ UNCHANGED <<tolerance, authenticated, photos, queue, persons, face_matches, tasks, sent, returned>>

(* Faces were found, the persons are loaded and the loop handles the       *)
(* faces before face k, for which create_thumbnail raises (a face that     *)
(* matches nobody).                                                        *)
ThumbnailFails(w) ==
    /\ worker[w].pc = "detect"
    /\ LET faces == photos[worker[w].photo_id].faces
       IN \E k \in 1..Len(faces) :
            LET sess == FacesHandled(Snapshot, worker[w].photo_id, faces, k - 1)
            IN /\ BestMatch(sess.known, faces[k]) = 0
               /\ worker' = [worker EXCEPT ![w].pc = "except", ![w].known = sess.known,
                                           ![w].added = sess.added]
    /\ UNCHANGED <<tolerance, authenticated, photos, queue, persons, face_matches, tasks, sent, returned>>

(* The except branch after the loop raised. *)
LoopFailed(w) ==
    /\ worker[w].pc = "except"
    /\ MarkFailed(w, ErrLibrary)

(* MarkCompleted as it would be with photo.processed left as it is. *)
MarkCompleted_NotProcessed(w) ==
    /\ worker[w].pc = "commit"
    /\ photos' = [photos EXCEPT ![worker[w].photo_id].face_count = Len(worker[w].added)]
    /\ queue' = [queue EXCEPT ![worker[w].queue_item].status = "completed"]
    /\ persons' = CommitPersons(worker[w].known)
    /\ face_matches' = CommitFaceMatches(worker[w].added)
    /\ worker' = Finished(w)
    /\ returned' = Success(Len(worker[w].added))
    /\ UNCHANGED <<tolerance, authenticated, tasks, sent>>

(* After the loop: the photo is marked and everything is committed. *)
MarkCompleted(w) ==
    /\ worker[w].pc = "commit"
    /\ photos' = [photos EXCEPT ![worker[w].photo_id].processed = TRUE,
                                ![worker[w].photo_id].face_count = Len(worker[w].added)]
    /\ queue' = [queue EXCEPT ![worker[w].queue_item].status = "completed"]
    /\ persons' = CommitPersons(worker[w].known)
    /\ face_matches' = CommitFaceMatches(worker[w].added)
    /\ worker' = Finished(w)
    /\ returned' = Success(Len(worker[w].added))
    /\ UNCHANGED <<tolerance, authenticated, tasks, sent>>

(* The commit after the loop fails and the session rolls back what it     *)
(* held; the except branch then marks the entry in a new transaction.      *)
CommitFails(w) ==
    /\ worker[w].pc = "commit"
    /\ queue' = [queue EXCEPT ![worker[w].queue_item].status = "failed",
                              ![worker[w].queue_item].error_message = ErrLibrary]
    /\ worker' = Finished(w)
    /\ returned' = Failure(ErrLibrary)
    /\ UNCHANGED <<tolerance, authenticated, photos, persons, face_matches, tasks, sent>>

(* A statement or a commit fails in the database.  The session is left in  *)
(* its failed transaction, which the except branch does not roll back, so  *)
(* its own commit raises too: the task ends with the exception and nothing *)
(* the session held is written.                                            *)
DatabaseFails(w) ==
    /\ worker[w].pc # "idle"
    /\ worker' = Finished(w)
    /\ returned' = Raised
    /\ UNCHANGED <<tolerance, authenticated, photos, queue, persons, face_matches, tasks, sent>>

process_single_photo(w) ==
    \/ QueueItemFound(w)
    \/ MarkProcessing(w)
    \/ DetectFails(w)
    \/ NoFaces(w)
    \/ MatchFaces(w)
    \/ ThumbnailFails(w)
    \/ LoopFailed(w)
    \/ MarkCompleted(w)
    \/ CommitFails(w)
    \/ DatabaseFails(w)

UploadRequests == UNION { [1..n -> Files] : n \in 1..2 }

Next ==
    \/ authenticate
    \/ \E files \in UploadRequests : upload_photos(files)
    \/ start_processing
    \/ \E w \in Workers : process_single_photo(w)

Spec == Init /\ [][Next]_vars

(* A worker that has a step to take takes it: a task that was delivered    *)
(* runs on until it returns or raises.                                     *)
SpecFair == Spec /\ \A w \in Workers : WF_vars(process_single_photo(w))

(* ------------------- the loop over the faces, alone ------------------- *)
(* SpecFaces runs lines 105-188 face by face for one photo of a worker     *)
(* that has loaded the persons, from every table of at most two persons    *)
(* and every photo of one or two faces over Encodings.  The rows of other  *)
(* photos are left out: the loop does not read them.                       *)
PersonTables ==
    { t \in UNION { [1..n -> [id : {1, 2}, name : {AutoName}, face_encoding : Encodings,
                               photo_count : {1}]] : n \in 0..2 } :
        \A j, k \in DOMAIN t : j # k => t[j].id # t[k].id }

FaceLists == UNION { [1..n -> Encodings] : n \in 1..MaxFaces }

InitFaces ==
    /\ tolerance = FACE_RECOGNITION_TOLERANCE
    /\ authenticated = TRUE
    /\ \E faces \in FaceLists : photos = << NewPhoto(faces) >>
    /\ queue = << [NewQueueItem(1) EXCEPT !.status = "processing"] >>
    /\ persons \in PersonTables
    /\ face_matches = <<>>
    /\ tasks = <<>>
    /\ sent = 1
    /\ worker = [w \in Workers |->
            IF w = "w1"
            THEN [IdleWorker EXCEPT !.pc = "faces", !.photo_id = 1, !.queue_item = 1,
                                    !.known = Snapshot.known]
            ELSE IdleWorker]
    /\ returned = NoResult

(* One pass of the loop: the next face is handled. *)
NextFace(w) ==
    /\ worker[w].pc = "faces"
    /\ LET faces == photos[worker[w].photo_id].faces
           i == Len(worker[w].added) + 1
           sess == HandleFace([known |-> worker[w].known, added |-> worker[w].added],
                              worker[w].photo_id, faces[i])
       IN worker' = [worker EXCEPT ![w].known = sess.known, ![w].added = sess.added,
                                   ![w].pc = IF i = Len(faces) THEN "commit" ELSE "faces"]
    /\ UNCHANGED <<tolerance, authenticated, photos, queue, persons, face_matches, tasks, sent, returned>>

(* create_thumbnail raises for the next face, which matches nobody. *)
NextFaceFails(w) ==
    /\ worker[w].pc = "faces"
    /\ LET faces == photos[worker[w].photo_id].faces
           i == Len(worker[w].added) + 1
       IN BestMatch(worker[w].known, faces[i]) = 0
    /\ worker' = [worker EXCEPT ![w].pc = "except"]
    /\ UNCHANGED <<tolerance, authenticated, photos, queue, persons, face_matches, tasks, sent, returned>>

NextFaces ==
    \E w \in Workers :
        \/ NextFace(w)
        \/ NextFaceFails(w)
        \/ LoopFailed(w)
        \/ MarkCompleted(w)

SpecFaces == InitFaces /\ [][NextFaces]_vars

(* ------------------- the loop, for every tolerance -------------------- *)
(* SpecTolerance runs the loop as SpecFaces does, for every configured     *)
(* tolerance from 0 to MaxDistance and encodings up to MaxDistance apart   *)
(* (MaxDistance is beyond 1.0).                                            *)
DistantEncodings == {0, 5, MaxDistance - 1, MaxDistance}

InitTolerance ==
    /\ tolerance \in 0..MaxDistance
    /\ authenticated = TRUE
    /\ \E faces \in UNION { [1..n -> DistantEncodings] : n \in 1..MaxFaces } :
          photos = << NewPhoto(faces) >>
    /\ queue = << [NewQueueItem(1) EXCEPT !.status = "processing"] >>
    /\ persons \in UNION { [1..n -> [id : {n}, name : {AutoName},
                                     face_encoding : DistantEncodings,
                                     photo_count : {1}]] : n \in 0..1 }
    /\ face_matches = <<>>
    /\ tasks = <<>>
    /\ sent = 1
    /\ worker = [w \in Workers |->
            IF w = "w1"
            THEN [IdleWorker EXCEPT !.pc = "faces", !.photo_id = 1, !.queue_item = 1,
                                    !.known = Snapshot.known]
            ELSE IdleWorker]
    /\ returned = NoResult

SpecTolerance == InitTolerance /\ [][NextFaces]_vars

(* ------------------- a second entry for one photo --------------------- *)
(* SpecFresh starts where a photo has an entry that is completed or        *)
(* failed and somebody has inserted a second, pending entry for it (the    *)
(* table allows any number of entries of one photo).  The photo, the       *)
(* persons and the face matches are as the first task left them: failed    *)
(* in the download, or completed from an empty persons table.              *)
InitFresh ==
    /\ tolerance = FACE_RECOGNITION_TOLERANCE
    /\ authenticated = TRUE
    /\ \E faces \in Images : \E st \in {"completed", "failed"} :
          /\ photos = << [faces |-> faces, processed |-> st = "completed",
                          face_count |-> IF st = "completed" THEN Len(faces) ELSE 0] >>
          /\ queue = << [photo_id |-> 1, status |-> st,
                         error_message |-> IF st = "failed" THEN ErrDownload ELSE None],
                        NewQueueItem(1) >>
          /\ persons = IF st = "completed"
                       THEN [k \in 1..Len(faces) |->
                                [id |-> k, name |-> AutoName, face_encoding |-> faces[k],
                                 photo_count |-> 1]]
                       ELSE <<>>
          /\ face_matches = IF st = "completed"
                            THEN [k \in 1..Len(faces) |-> FaceMatchRow(1, k, One, faces[k])]
                            ELSE <<>>
    /\ tasks = <<>>
    /\ sent = 0
    /\ worker = [w \in Workers |-> IdleWorker]
    /\ returned = NoResult

NextFresh ==
    \/ start_processing
    \/ \E w \in Workers : process_single_photo(w)

SpecFresh == InitFresh /\ [][NextFresh]_vars

(* ------------------------- persons, renamed --------------------------- *)
(* PATCH /api/persons/<person_id> with a name: the row's name is written,  *)
(* nothing else.                                                           *)
Renamed == "renamed"

update_person(j, name) ==
    /\ authenticated
    /\ j \in DOMAIN persons
    /\ persons' = [persons EXCEPT ![j].name = name]
    /\ UNCHANGED <<tolerance, authenticated, photos, queue, face_matches, tasks, sent, worker,
                   returned>>

(* SpecPersons starts after a first photo with one face was uploaded and   *)
(* processed, which made the person of that face, and two more photos      *)
(* were uploaded; the persons are renamed while the photos are processed.  *)
LaterImages == { <<>>, <<0>>, <<0, 0>>, <<8>> }

InitPersons ==
    /\ tolerance = FACE_RECOGNITION_TOLERANCE
    /\ authenticated = TRUE
    /\ \E second, third \in LaterImages :
          photos = << [faces |-> <<0>>, processed |-> TRUE, face_count |-> 1],
                      NewPhoto(second), NewPhoto(third) >>
    /\ queue = << [NewQueueItem(1) EXCEPT !.status = "completed"],
                  NewQueueItem(2), NewQueueItem(3) >>
    /\ persons = << [id |-> 1, name |-> AutoName, face_encoding |-> 0, photo_count |-> 1] >>
    /\ face_matches = << FaceMatchRow(1, 1, One, 0) >>
    /\ tasks = <<>>
    /\ sent = 0
    /\ worker = [w \in Workers |-> IdleWorker]
    /\ returned = NoResult

NextPersons ==
    \/ \E j \in 1..2 : \E name \in {AutoName, Renamed} : update_person(j, name)
    \/ start_processing
    \/ \E w \in Workers : process_single_photo(w)

SpecPersons == InitPersons /\ [][NextPersons]_vars

(* ---------------------- a photo id without entry ---------------------- *)
ErrNotFound == "Queue item not found"

(* QueueItemNotFound as it would be if it reported success. *)
QueueItemNotFound_Success(w) ==
    /\ worker[w].pc = "idle"
    /\ tasks # <<>>
    /\ ~ \E q \in DOMAIN queue : queue[q].photo_id = Head(tasks)
    /\ tasks' = Tail(tasks)
    /\ returned' = [outcome |-> "success", faces_found |-> 0, error |-> None]
    /\ UNCHANGED <<tolerance, authenticated, photos, queue, persons, face_matches, sent, worker>>

(* process_photo_task is delivered to a free worker and the query for the  *)
(* photo's entry finds no row: the function returns at once.               *)
QueueItemNotFound(w) ==
    /\ worker[w].pc = "idle"
    /\ tasks # <<>>
    /\ ~ \E q \in DOMAIN queue : queue[q].photo_id = Head(tasks)
    /\ tasks' = Tail(tasks)
    /\ returned' = Failure(ErrNotFound)
    /\ UNCHANGED <<tolerance, authenticated, photos, queue, persons, face_matches, sent, worker>>

(* SpecNotFound starts after an upload of one or two photos, with one or   *)
(* two messages at the broker that some caller of process_photo_task sent  *)
(* for photo ids of which some have no entry (the handlers of app.py       *)
(* send messages for existing entries only).                               *)
InitNotFound ==
    /\ tolerance = FACE_RECOGNITION_TOLERANCE
    /\ authenticated = TRUE
    /\ \E n \in 1..2 : \E uploaded \in [1..n -> Images] :
          /\ photos = [k \in 1..n |-> NewPhoto(uploaded[k])]
          /\ queue = [k \in 1..n |-> NewQueueItem(k)]
    /\ persons = <<>>
    /\ face_matches = <<>>
    /\ tasks \in UNION { [1..n -> 1..3] : n \in 1..2 }
    /\ sent = Len(tasks)
    /\ worker = [w \in Workers |-> IdleWorker]
    /\ returned = NoResult

NextNotFound ==
    \/ start_processing
    \/ \E w \in Workers : process_single_photo(w) \/ QueueItemNotFound(w)

SpecNotFound == InitNotFound /\ [][NextNotFound]_vars

(* ------------------------------ claims -------------------------------- *)
(* A worker holds the lease of its entry from the commit of 'processing'   *)
(* until its task ends.                                                    *)
Processing(w) == worker[w].pc \in {"detect", "commit", "except", "faces"}

Terminal(st) == st \in {"completed", "failed"}

FaceMatchesOf(photo_id) == SelectSeq(face_matches, LAMBDA m : m.photo_id = photo_id)

(* C1: at no time are two workers processing the same queue entry: of two  *)
(* workers that start process_single_photo for the same pending entry,     *)
(* only one goes on to process the photo.                                  *)
C1_SingleLease ==
    \A w1, w2 \in Workers :
        (w1 # w2 /\ Processing(w1) /\ Processing(w2))
            => worker[w1].queue_item # worker[w2].queue_item

(* C2: once an entry's status is completed or failed, no step changes it.  *)
C2_TerminalStates ==
    [][\A q \in DOMAIN queue : Terminal(queue[q].status) => queue'[q].status = queue[q].status]_vars

(* C3: however often the message of a photo is delivered, each detected    *)
(* face of the photo is recorded once: the photo never has more FaceMatch  *)
(* rows than faces.                                                        *)
C3_NoDoubleCounting ==
    \A p \in DOMAIN photos : Len(FaceMatchesOf(p)) <= Len(photos[p].faces)

(* C4: every photo with processed = true has exactly face_count FaceMatch  *)
(* rows.                                                                   *)
C4_ProcessedFaceCount ==
    \A p \in DOMAIN photos :
        photos[p].processed => Len(FaceMatchesOf(p)) = photos[p].face_count

(* C5: an entry is completed only if its photo is processed, and the step  *)
(* that makes an entry completed is the step that marks the photo          *)
(* processed, sets face_count to the number of its faces and adds that     *)
(* many FaceMatch rows of the photo.                                       *)
C5_CompletedInv ==
    \A q \in DOMAIN queue :
        queue[q].status = "completed" => photos[queue[q].photo_id].processed

C5_CompletedStep ==
    \A q \in DOMAIN queue :
        (queue[q].status # "completed" /\ queue'[q].status = "completed")
            => LET p == queue[q].photo_id
               IN /\ photos'[p].processed
                  /\ photos'[p].face_count = Len(photos[p].faces)
                  /\ Len(FaceMatchesOf(p)') = Len(FaceMatchesOf(p)) + photos'[p].face_count

C5_CompletedWithPhoto == []C5_CompletedInv /\ [][C5_CompletedStep]_vars

C5_Witness ==
    \E q \in DOMAIN queue :
        /\ queue[q].status = "completed"
        /\ photos[queue[q].photo_id].face_count > 0
        /\ Len(FaceMatchesOf(queue[q].photo_id)) > 0

(* C6: a task whose detection finds no face ends, unless the database      *)
(* fails, with the photo processed, face_count 0, no FaceMatch row of the  *)
(* photo, the persons untouched, the entry completed and the result        *)
(* success with faces_found 0; a photo without faces never has a FaceMatch *)
(* row and never enters the loop.                                          *)
C6_NoFacesInv ==
    /\ \A p \in DOMAIN photos : Len(photos[p].faces) = 0 => Len(FaceMatchesOf(p)) = 0
    /\ \A w \in Workers :
          worker[w].pc \in {"commit", "except"} => Len(photos[worker[w].photo_id].faces) > 0

C6_NoFacesStep ==
    \A w \in Workers :
        (/\ worker[w].pc = "detect"
         /\ Len(photos[worker[w].photo_id].faces) = 0
         /\ worker'[w].pc = "idle"
         /\ returned'.outcome \notin {"failure", "exception"})
            => LET p == worker[w].photo_id
                   q == worker[w].queue_item
               IN /\ photos'[p].processed
                  /\ photos'[p].face_count = 0
                  /\ face_matches' = face_matches
                  /\ persons' = persons
                  /\ queue'[q].status = "completed"
                  /\ returned' = [outcome |-> "success", faces_found |-> 0, error |-> None]

C6_NoFaces == []C6_NoFacesInv /\ [][C6_NoFacesStep]_vars

C6_Witness ==
    \E q \in DOMAIN queue :
        /\ queue[q].status = "completed"
        /\ Len(photos[queue[q].photo_id].faces) = 0
        /\ photos[queue[q].photo_id].processed
        /\ returned.outcome = "success" /\ returned.faces_found = 0
        /\ persons # <<>>

(* C7: when the face handled next is farther than the tolerance from every *)
(* person the session knows, the pass adds exactly one person, with        *)
(* photo_count 1, the face's encoding and an id no known person has, and   *)
(* the FaceMatch of the face refers to it with confidence 1.0; the commit  *)
(* inserts the new persons as the session holds them.                      *)
C7_LoopStep ==
    \A w \in Workers :
        (/\ worker[w].pc = "faces"
         /\ Len(worker'[w].added) = Len(worker[w].added) + 1)
            => LET known == worker[w].known
                   after == worker'[w].known
                   enc == photos[worker[w].photo_id].faces[Len(worker[w].added) + 1]
                   m == worker'[w].added[Len(worker'[w].added)]
               IN (\A k \in DOMAIN known :
                        Distance(known[k].face_encoding, enc) > tolerance)
                    => /\ Len(after) = Len(known) + 1
                       /\ \A k \in DOMAIN known : after[k] = known[k]
                       /\ after[Len(after)].new
                       /\ after[Len(after)].photo_count = 1
                       /\ after[Len(after)].face_encoding = enc
                       /\ after[Len(after)].id \notin Ids(known)
                       /\ m.person_id = after[Len(after)].id
                       /\ m.photo_id = worker[w].photo_id
                       /\ m.face_encoding = enc
                       /\ m.confidence = One

C7_CommitStep ==
    \A w \in Workers :
        (worker[w].pc = "commit" /\ worker'[w].pc = "idle")
            => LET created == SelectSeq(worker[w].known, LAMBDA e : e.new)
               IN /\ Len(persons') = Len(persons) + Len(created)
                  /\ \A k \in DOMAIN created :
                        /\ created[k].id \notin Ids(persons)
                        /\ persons'[Len(persons) + k] =
                              [id |-> created[k].id, name |-> created[k].name,
                               face_encoding |-> created[k].face_encoding,
                               photo_count |-> created[k].photo_count]

C7_NewPerson == [][C7_LoopStep /\ C7_CommitStep]_vars

C7_Witness ==
    /\ queue[1].status = "completed"
    /\ Len(persons) = 3
    /\ persons[3].photo_count = 1
    /\ \E k \in DOMAIN face_matches :
          face_matches[k].person_id = persons[3].id /\ face_matches[k].confidence = One

(* C8: when a task's results are written, each face recorded for a person  *)
(* that was in the table is within the tolerance of that person, no loaded *)
(* person is nearer to it, its confidence is 1 - distance, and the         *)
(* person's photo_count in the table has grown by one for each such face.  *)
C8_CommitStep ==
    \A w \in Workers :
        (/\ worker[w].pc \in {"commit", "except"}
         /\ worker'[w].pc = "idle"
         /\ face_matches' = face_matches \o worker[w].added)
            => \A j \in DOMAIN persons :
                  LET rows == { k \in DOMAIN worker[w].added :
                                   worker[w].added[k].person_id = persons[j].id }
                  IN /\ \A k \in rows :
                          LET enc == worker[w].added[k].face_encoding
                              d == Distance(persons[j].face_encoding, enc)
                          IN /\ d <= tolerance
                             /\ worker[w].added[k].confidence = One - d
                             /\ \A e \in DOMAIN worker[w].known :
                                   ~worker[w].known[e].new
                                      => d <= Distance(worker[w].known[e].face_encoding, enc)
                     /\ persons'[j].photo_count = persons[j].photo_count + Cardinality(rows)

C8_MatchedPerson == [][C8_CommitStep]_vars

(* C9: a task that ends with an error after it marked its entry processing *)
(* leaves the entry failed with an error message and the photo not         *)
(* processed, and sends no message for the photo again.                    *)
C9_ErrorStep ==
    \A w \in Workers :
        (/\ Processing(w)
         /\ worker'[w].pc = "idle"
         /\ returned'.outcome \in {"failure", "exception"})
            => LET q == worker[w].queue_item
               IN /\ queue'[q].status = "failed"
                  /\ queue'[q].error_message # None
                  /\ ~photos'[worker[w].photo_id].processed
                  /\ tasks' = tasks

C9_ErrorMarksFailed == [][C9_ErrorStep]_vars

(* C10: whatever entries are failed or left in processing, every pending   *)
(* entry is selected by start_processing, a free worker can take the       *)
(* message of any entry and mark the entry processing, and the task can    *)
(* end: failed from the detection, completed for a photo without faces,    *)
(* completed or failed after the loop.                                     *)
Blocking(q) ==
    \E q2 \in DOMAIN queue : q2 # q /\ queue[q2].status \in {"failed", "processing"}

C10_FailureIsolation ==
    \A q \in DOMAIN queue :
        Blocking(q)
            => /\ queue[q].status = "pending"
                     => \A pending_queue \in PendingQueue : q \in Range(pending_queue)
               /\ \A w \in Workers :
                     (worker[w].pc = "idle" /\ tasks # <<>> /\ Head(tasks) = queue[q].photo_id)
                        => ENABLED QueueItemFound(w)
               /\ \A w \in Workers :
                     worker[w].queue_item = q
                        => /\ worker[w].pc = "lease" => ENABLED MarkProcessing(w)
                           /\ worker[w].pc = "detect" => ENABLED DetectFails(w)
                           /\ (worker[w].pc = "detect" /\ photos[worker[w].photo_id].faces = <<>>)
                                 => ENABLED NoFaces(w)
                           /\ worker[w].pc = "commit" => ENABLED MarkCompleted(w)
                           /\ worker[w].pc = "except" => ENABLED LoopFailed(w)

C10_Witness ==
    \E q, q2 \in DOMAIN queue :
        /\ q2 < q
        /\ queue[q2].status = "failed"
        /\ queue[q].status = "pending"
        /\ \E pending_queue \in PendingQueue : q \in Range(pending_queue)
        /\ tasks # <<>> /\ Head(tasks) = queue[q].photo_id
        /\ \E w \in Workers : worker[w].pc = "idle"

(* C11: a start_processing call sends the messages of the oldest           *)
(* min(BatchLimit, number of pending) pending entries, in insertion order, *)
(* and of no other entry.                                                  *)
C11_BatchLease ==
    [][sent' > sent
          => LET oldest == Take(SelectIdx(queue, "pending", 1), BatchLimit)
             IN tasks' = tasks \o [k \in 1..Len(oldest) |-> queue[oldest[k]].photo_id]]_vars

(* C12: the message of a photo is sent once: a start_processing call sends *)
(* a message only for a photo whose entry is pending and for which no      *)
(* message is waiting at the broker or in the hands of a worker.           *)
C12_EnqueuedOnce ==
    [][sent' > sent
          => \A k \in (Len(tasks) + 1)..Len(tasks') :
                /\ \E q \in DOMAIN queue :
                      queue[q].photo_id = tasks'[k] /\ queue[q].status = "pending"
                /\ tasks'[k] \notin Range(tasks)
                /\ \A w \in Workers : worker[w].photo_id # tasks'[k]]_vars

(* C13: when a photo has a completed or failed entry and a fresh pending   *)
(* entry, the task that takes the photo's message takes the pending entry, *)
(* and no step changes the older entry.                                    *)
C13_FreshEntry ==
    [][/\ \A w \in Workers :
             (/\ worker[w].pc = "idle" /\ worker'[w].pc = "lease"
              /\ \E q \in DOMAIN queue :
                    queue[q].photo_id = Head(tasks) /\ queue[q].status = "pending")
                => queue[worker'[w].queue_item].status = "pending"
       /\ queue'[1] = queue[1]]_vars

(* C14: a face assigned to a known person is assigned, among the known     *)
(* persons at the same least distance, to the one with the lowest id.      *)
C14_TieBreak ==
    [][\A w \in Workers :
          (/\ worker[w].pc = "faces"
           /\ Len(worker'[w].added) = Len(worker[w].added) + 1)
              => LET known == worker[w].known
                     enc == photos[worker[w].photo_id].faces[Len(worker[w].added) + 1]
                     m == worker'[w].added[Len(worker'[w].added)]
                 IN \A b, k \in DOMAIN known :
                       (/\ known[b].id = m.person_id
                        /\ Distance(known[k].face_encoding, enc)
                              = Distance(known[b].face_encoding, enc))
                          => known[b].id <= known[k].id]_vars

(* C15: an entry carries an error message only while its status is failed. *)
C15_ErrorOnlyOnFailed ==
    \A q \in DOMAIN queue : queue[q].error_message # None => queue[q].status = "failed"

(* C16: the confidence of every FaceMatch a task makes is between 0 and    *)
(* 1.0 and is max(0, 1 - distance) for the distance between the face and   *)
(* the person it refers to, whatever the tolerance.                        *)
C16_ConfidenceRange ==
    \A w \in Workers : \A k \in DOMAIN worker[w].added :
        LET m == worker[w].added[k]
        IN /\ 0 <= m.confidence /\ m.confidence <= One
           /\ \E e \in DOMAIN worker[w].known :
                 /\ worker[w].known[e].id = m.person_id
                 /\ LET d == Distance(worker[w].known[e].face_encoding, m.face_encoding)
                    IN m.confidence = IF One - d < 0 THEN 0 ELSE One - d

(* C17: the faces of a photo are handled in detection order against the    *)
(* persons loaded at the start, which stay as loaded, together with the    *)
(* persons created for earlier faces of the photo: a face within the       *)
(* tolerance of such a person creates nobody and goes to the nearest known *)
(* person; two faces of a photo with the same encoding and no loaded       *)
(* person within the tolerance yield one new person, to which both refer.  *)
C17_LoopStep ==
    \A w \in Workers :
        (/\ worker[w].pc = "faces"
         /\ worker'[w].added # worker[w].added)
            => LET known == worker[w].known
                   after == worker'[w].known
                   enc == photos[worker[w].photo_id].faces[Len(worker[w].added) + 1]
                   m == worker'[w].added[Len(worker'[w].added)]
               IN /\ worker'[w].added = Append(worker[w].added, m)
                  /\ m.face_encoding = enc
                  /\ Len(after) >= Len(known)
                  /\ \A k \in DOMAIN known :
                        /\ after[k].id = known[k].id
                        /\ after[k].face_encoding = known[k].face_encoding
                        /\ after[k].new = known[k].new
                  /\ \A k \in DOMAIN after : k > Len(known) => after[k].new
                  /\ (\E k \in DOMAIN known :
                         known[k].new /\ Distance(known[k].face_encoding, enc) <= tolerance)
                        => /\ Len(after) = Len(known)
                           /\ \E b \in DOMAIN known :
                                 /\ m.person_id = known[b].id
                                 /\ \A k \in DOMAIN known :
                                       Distance(known[b].face_encoding, enc)
                                          <= Distance(known[k].face_encoding, enc)

C17_SameEncoding ==
    \A w \in Workers :
        worker[w].pc \in {"faces", "commit", "except"}
            => \A j, k \in DOMAIN worker[w].added :
                  LET enc == worker[w].added[j].face_encoding
                  IN (/\ j < k
                      /\ worker[w].added[k].face_encoding = enc
                      /\ \A e \in DOMAIN worker[w].known :
                            ~worker[w].known[e].new
                               => Distance(worker[w].known[e].face_encoding, enc) > tolerance)
                        => /\ worker[w].added[j].person_id = worker[w].added[k].person_id
                           /\ Cardinality({ e \in DOMAIN worker[w].known :
                                                /\ worker[w].known[e].new
                                                /\ worker[w].known[e].face_encoding = enc }) = 1

C17_IntraPhoto == []C17_SameEncoding /\ [][C17_LoopStep]_vars

C17_Witness ==
    \E w \in Workers :
        /\ worker[w].pc = "commit"
        /\ Len(worker[w].added) = 2
        /\ worker[w].added[1].face_encoding = worker[w].added[2].face_encoding
        /\ worker[w].added[1].person_id = worker[w].added[2].person_id
        /\ Len(worker[w].known) = Len(persons) + 1
        /\ persons # <<>>
        /\ worker[w].known[Len(worker[w].known)].photo_count = 2

(* C18: no step changes the face_encoding of an existing person or lowers  *)
(* its photo_count.                                                        *)
C18_PersonFrame ==
    [][\A j \in DOMAIN persons :
          /\ persons'[j].id = persons[j].id
          /\ persons'[j].face_encoding = persons[j].face_encoding
          /\ persons'[j].photo_count >= persons[j].photo_count]_vars

(* C19: when the loop fails at a face and the entry is marked failed, the  *)
(* FaceMatch rows and the persons made for the faces before it are written *)
(* with it, and the photo keeps processed and face_count as they were.     *)
C19_FailStep ==
    \A w \in Workers :
        (/\ worker[w].pc = "except"
         /\ worker'[w].pc = "idle"
         /\ returned'.outcome = "failure")
            => LET created == SelectSeq(worker[w].known, LAMBDA e : e.new)
               IN /\ queue'[worker[w].queue_item].status = "failed"
                  /\ face_matches' = face_matches \o worker[w].added
                  /\ Len(persons') = Len(persons) + Len(created)
                  /\ \A k \in DOMAIN created :
                        persons'[Len(persons) + k] =
                            [id |-> created[k].id, name |-> created[k].name,
                             face_encoding |-> created[k].face_encoding,
                             photo_count |-> created[k].photo_count]
                  /\ photos' = photos

C19_PartialFailure == [][C19_FailStep]_vars

C19_Witness ==
    \E q \in DOMAIN queue :
        LET p == queue[q].photo_id
        IN /\ queue[q].status = "failed"
           /\ ~photos[p].processed
           /\ photos[p].face_count = 0
           /\ Len(FaceMatchesOf(p)) = 1
           /\ Len(photos[p].faces) = 2
           /\ \E j \in DOMAIN persons : persons[j].id = FaceMatchesOf(p)[1].person_id

(* C20: with the workers scheduled fairly, every entry that is processing  *)
(* is eventually completed or failed.                                      *)
StatusOf(q) == IF q \in DOMAIN queue THEN queue[q].status ELSE None

C20_Progress ==
    \A q \in 1..MaxPhotos : (StatusOf(q) = "processing") ~> Terminal(StatusOf(q))

(* C21: a task for a photo id that has no queue entry returns the failure  *)
(* "Queue item not found" at once: its worker stays free and no photo,     *)
(* person, face match or queue entry changes.                              *)
C21_NotFound ==
    [][(/\ Len(tasks') < Len(tasks)
        /\ ~ \E q \in DOMAIN queue : queue[q].photo_id = Head(tasks))
          => /\ returned' = [outcome |-> "failure", faces_found |-> 0, error |-> ErrNotFound]
             /\ worker' = worker
             /\ photos' = photos
             /\ persons' = persons
             /\ face_matches' = face_matches
             /\ queue' = queue
             /\ tasks' = Tail(tasks)]_vars

C21_Witness ==
    /\ returned = [outcome |-> "failure", faces_found |-> 0, error |-> ErrNotFound]
    /\ tasks # <<>>
    /\ \E q \in DOMAIN queue : queue[q].status = "pending" /\ queue[q].photo_id = Head(tasks)
    /\ \A w \in Workers : worker[w].pc = "idle"

(* C22: every person's photo_count equals the number of face_matches rows  *)
(* that reference the person, also while workers process different photos *)
(* at the same time.                                                       *)
C22_PhotoCountMatches ==
    \A j \in DOMAIN persons :
        persons[j].photo_count =
            Cardinality({k \in DOMAIN face_matches :
                            face_matches[k].person_id = persons[j].id})

=============================================================================
